---- MODULE Spec2Model ----
(***************************************************************************)
(* Model of scripts/atlas.py, download_e_processar: the sparse census      *)
(* observations of the Atlas raw file are filtered to the censitary years, *)
(* keyed by a 7-character municipality code, grouped by that code, merged  *)
(* onto the target year timeline, filled (ffill/bfill of the fixed columns,*)
(* linear interpolation + ffill of the numeric columns), concatenated and  *)
(* written out.                                                            *)
(*                                                                         *)
(* One fixed column (nome_municipio) stands for the fixed columns          *)
(* nome_municipio/uf and one numeric column (idhm) for the seven numeric   *)
(* columns: the code applies the same column-wise pandas call to each.     *)
(* Numeric values are exact rationals [n, d]; d = 0 is NaN.                *)
(***************************************************************************)
EXTENDS Integers, Sequences, FiniteSets, TLC

\* ---------------------------------------------------------------- bounds
\* Largest number of data lines in the raw CSV file.
MaxObs == 3

\* ------------------------------------------------------ program constants
ANOS_CENSITARIOS == <<2000, 2010>>
ANOS_ALVO == <<2000, 2005, 2010, 2015>>
\* width given to str.zfill
LarguraCodmun == 7

\* ------------------------------------------------------------- sequences
Range(s) == {s[i] : i \in 1..Len(s)}

RECURSIVE Flatten(_)
Flatten(ss) == IF ss = <<>> THEN <<>> ELSE Head(ss) \o Flatten(Tail(ss))

\* ------------------------------------------------------------- rationals
RECURSIVE GCD(_, _)
GCD(a, b) == IF b = 0 THEN a ELSE GCD(b, a % b)

Abs(x) == IF x < 0 THEN -x ELSE x

\* float NaN: the "unset" numeric cell
NaN == [n |-> 0, d |-> 0]

\* a field of a numeric column whose text is no number
Texto == [n |-> 1, d |-> 0]

Rat(n, d) ==
    LET g == GCD(Abs(n), Abs(d))
        s == IF d < 0 THEN -1 ELSE 1
    IN  [n |-> s * (n \div g), d |-> s * (d \div g)]

RatOfInt(k) == [n |-> k, d |-> 1]
RatAdd(a, b) == Rat(a.n * b.d + b.n * a.d, a.d * b.d)
RatSub(a, b) == Rat(a.n * b.d - b.n * a.d, a.d * b.d)
\* a * p / q for integers p, q (q > 0)
RatScale(a, p, q) == Rat(a.n * p, a.d * q)

\* ------------------------------------------------- text of the key column
Digitos == <<"0", "1", "2", "3", "4", "5", "6", "7", "8", "9">>

DigitoDe(c) == CHOOSE k \in 0..9 : Digitos[k + 1] = c

\* read_csv parsing an integer field
RECURSIVE StrToNat(_)
StrToNat(t) ==
    IF t = <<>> THEN 0
    ELSE 10 * StrToNat(SubSeq(t, 1, Len(t) - 1)) + DigitoDe(t[Len(t)])

RECURSIVE NatToStr(_)
NatToStr(k) ==
    IF k < 10 THEN <<Digitos[k + 1]>>
    ELSE NatToStr(k \div 10) \o <<Digitos[(k % 10) + 1]>>

\* code points of the characters a key can hold (object columns sort by them)
CharCode(c) ==
    IF c = "." THEN 46
    ELSE IF c = "a" THEN 97
    ELSE IF c = "n" THEN 110
    ELSE 48 + DigitoDe(c)

RECURSIVE StrLess(_, _)
StrLess(a, b) ==
    IF b = <<>> THEN FALSE
    ELSE IF a = <<>> THEN TRUE
    ELSE IF Head(a) # Head(b) THEN CharCode(Head(a)) < CharCode(Head(b))
    ELSE StrLess(Tail(a), Tail(b))

\* str(x) of one Codmun7 cell: an int64 column prints the digits, a float64
\* column (the column holds a missing cell) prints "<digits>.0" and "nan"
NaNCod == -1

AsTypeStr(v, dtype) ==
    IF v = NaNCod THEN <<"n", "a", "n">>
    ELSE IF dtype = "float64" THEN NatToStr(v) \o <<".", "0">>
    ELSE NatToStr(v)

\* str.zfill(width): left-pad with "0" up to width, never truncate
Zfill(t, width) ==
    IF Len(t) >= width THEN t
    ELSE [i \in 1..(width - Len(t)) |-> "0"] \o t

\* the key the script gives to a raw Codmun7 field of a file whose key
\* column has the given dtype
ChaveDe(campo, dtype) ==
    Zfill(AsTypeStr(IF campo = <<>> THEN NaNCod ELSE StrToNat(campo), dtype),
          LarguraCodmun)

\* -------------------------------------------------------- pandas, by column
\* the unset cell of each column of the merged frame
SemChave == <<>>
SemNome == ""

Col(t, f) == [i \in 1..Len(t) |-> t[i][f]]
SetCol(t, f, col) == [i \in 1..Len(t) |-> [t[i] EXCEPT ![f] = col[i]]]

SetMax(S) == CHOOSE x \in S : \A y \in S : y <= x
SetMin(S) == CHOOSE x \in S : \A y \in S : x <= y

\* Series.ffill(): each unset cell takes the nearest set cell above it
Ffill(col, na) ==
    [i \in 1..Len(col) |->
        LET K == {j \in 1..i : col[j] # na}
        IN  IF K = {} THEN na ELSE col[SetMax(K)]]

\* Series.bfill(): each unset cell takes the nearest set cell below it
Bfill(col, na) ==
    [i \in 1..Len(col) |->
        LET K == {j \in i..Len(col) : col[j] # na}
        IN  IF K = {} THEN na ELSE col[SetMin(K)]]

\* Interpolate with every cell recomputed from the set cells around it, the
\* set cells included.
Interpolate_Vizinhos(col) ==
    [i \in 1..Len(col) |->
        LET A == {j \in 1..(i - 1) : col[j] # NaN}
            B == {j \in (i + 1)..Len(col) : col[j] # NaN}
        IN  IF A = {} THEN col[i]
            ELSE IF B = {} THEN col[SetMax(A)]
            ELSE LET a == SetMax(A)
                     b == SetMin(B)
                 IN  RatAdd(col[a],
                            RatScale(RatSub(col[b], col[a]), i - a, b - a))]

\* Series.interpolate(method='linear'): the index is ignored, the rows count
\* as equally spaced; limit_direction defaults to 'forward', so cells above
\* the first set cell stay NaN and cells below the last set cell take it.
Interpolate(col) ==
    [i \in 1..Len(col) |->
        IF col[i] # NaN THEN col[i]
        ELSE LET A == {j \in 1..i : col[j] # NaN}
                 B == {j \in i..Len(col) : col[j] # NaN}
             IN  IF A = {} THEN NaN
                 ELSE IF B = {} THEN col[SetMax(A)]
                 ELSE LET a == SetMax(A)
                          b == SetMin(B)
                      IN  RatAdd(col[a],
                                 RatScale(RatSub(col[b], col[a]), i - a, b - a))]

\* pd.merge(df_timeline, dados_mun, on='ano', how='left'): the left key order
\* is kept; a year takes one row per matching line of dados_mun, in the order
\* of dados_mun, and one all-unset row when no line matches.
LinhaVazia(ano) ==
    [ano |-> ano, codmun |-> SemChave, nome_municipio |-> SemNome, idhm |-> NaN]

\* the merge with how='inner': a year no line matches gives no row
MergeInner(timeline, dados_mun) ==
    Flatten([k \in 1..Len(timeline) |->
        SelectSeq(dados_mun, LAMBDA r : r.ano = timeline[k])])

MergeLeft(timeline, dados_mun) ==
    Flatten([k \in 1..Len(timeline) |->
        LET m == SelectSeq(dados_mun, LAMBDA r : r.ano = timeline[k])
        IN  IF m = <<>> THEN <<LinhaVazia(timeline[k])>> ELSE m])

\* the fixed columns with ffill() alone
PreencheFixos_SemBfill(t) ==
    LET c1 == SetCol(t, "codmun", Ffill(Col(t, "codmun"), SemChave))
    IN  SetCol(c1, "nome_municipio", Ffill(Col(c1, "nome_municipio"), SemNome))

\* ffill().bfill() of the fixed columns
PreencheFixos(t) ==
    LET c1 == SetCol(t, "codmun", Bfill(Ffill(Col(t, "codmun"), SemChave), SemChave))
    IN  SetCol(c1, "nome_municipio",
               Bfill(Ffill(Col(c1, "nome_municipio"), SemNome), SemNome))

\* the numeric columns filled between set cells only (limit_area='inside',
\* no ffill)
PreencheNumericas_SoInterior(t) ==
    LET col == Col(t, "idhm")
        c == Interpolate(col)
    IN  SetCol(t, "idhm",
               [i \in 1..Len(col) |->
                   IF \E j \in i..Len(col) : col[j] # NaN THEN c[i] ELSE NaN])

\* interpolate(method='linear') then ffill() of the numeric columns
PreencheNumericas(t) ==
    SetCol(t, "idhm", Ffill(Interpolate(Col(t, "idhm")), NaN))

\* the numeric columns when the column is object: interpolate leaves an
\* object column as it is, ffill() then carries every cell that is not NaN
\* downwards, text included
PreencheObjeto(t) ==
    SetCol(t, "idhm", Ffill(Col(t, "idhm"), NaN))

\* the loop body merging the timeline with the whole frame instead of the
\* group
LinhaDoTempo_SemGrupo(df_, cod) ==
    PreencheNumericas(PreencheFixos(MergeLeft(ANOS_ALVO, df_)))

\* the body of the loop over the groups, for the group of key cod
LinhaDoTempo(df_, cod) ==
    LET dados_mun == SelectSeq(df_, LAMBDA r : r.codmun = cod)
        df_merged == MergeLeft(ANOS_ALVO, dados_mun)
    IN  PreencheNumericas(PreencheFixos(df_merged))

\* the loop body for a group whose indicator column is object
LinhaDoTempoObjeto(df_, cod) ==
    LET dados_mun == SelectSeq(df_, LAMBDA r : r.codmun = cod)
        df_merged == MergeLeft(ANOS_ALVO, dados_mun)
    IN  PreencheObjeto(PreencheFixos(df_merged))

\* df.groupby('codmun'): the group keys, sorted
RECURSIVE SortKeys(_)
SortKeys(S) ==
    IF S = {} THEN <<>>
    ELSE LET m == CHOOSE x \in S : \A y \in S \ {x} : StrLess(x, y)
         IN  <<m>> \o SortKeys(S \ {m})

GroupKeys(df_) == SortKeys({df_[i].codmun : i \in 1..Len(df_)})

\* ------------------------------------------------------------ the raw file
\* One data line of the raw CSV: the year, the text of the Codmun7 field
\* (empty when the field is missing), the name and one indicator.
CamposCodmun == {<<"7">>, <<"1", "2">>, <<>>}
AnosBrutos == {1991, 2000, 2010}
Nomes == {"A", "B"}
Valores == {NaN, RatOfInt(10), RatOfInt(20)}

\* Lines of years the script drops on load carry one fixed payload.
LinhasDescartadas ==
    [ANO : AnosBrutos \ Range(ANOS_CENSITARIOS), Codmun7 : CamposCodmun,
     Municipio : {"A"}, IDHM : {RatOfInt(10)}]

\* Files whose lines vary in the indicator (one name throughout).
LinhasBrutas ==
    LinhasDescartadas
    \cup [ANO : AnosBrutos \cap Range(ANOS_CENSITARIOS), Codmun7 : CamposCodmun,
          Municipio : {"A"}, IDHM : Valores]

Arquivos == UNION {[1..k -> LinhasBrutas] : k \in 0..MaxObs}

\* Files whose lines vary in the name, missing names included (one indicator
\* value throughout).
LinhasBrutasNomes ==
    LinhasDescartadas
    \cup [ANO : AnosBrutos \cap Range(ANOS_CENSITARIOS), Codmun7 : CamposCodmun,
          Municipio : Nomes \cup {""}, IDHM : {RatOfInt(10)}]

ArquivosNomes == UNION {[1..k -> LinhasBrutasNomes] : k \in 0..MaxObs}

\* Files whose indicator fields may hold a text that is no number.
LinhasBrutasTexto ==
    LinhasDescartadas
    \cup [ANO : AnosBrutos \cap Range(ANOS_CENSITARIOS), Codmun7 : CamposCodmun,
          Municipio : {"A"}, IDHM : {RatOfInt(10), RatOfInt(20), Texto}]

ArquivosTexto == UNION {[1..k -> LinhasBrutasTexto] : k \in 0..MaxObs}

SemArquivo == [existe |-> FALSE, linhas |-> <<>>]
Arquivo(linhas) == [existe |-> TRUE, linhas |-> linhas]

\* ------------------------------------------------------------------ state
VARIABLES
    pc,          \* position in download_e_processar
    remoto,      \* the lines URL_CSV serves
    raw_file,    \* RAW_FILE on disk
    dtype,       \* dtype read_csv gave to the Codmun7 column
    dtype_idhm,  \* dtype read_csv gave to the indicator column
    df,          \* the frame df
    grupos,      \* keys of df.groupby('codmun') not yet visited
    dfs_finais,  \* the list dfs_finais
    df_final,    \* the frame df_final
    output_file  \* OUTPUT_FILE on disk

vars == <<pc, remoto, raw_file, dtype, dtype_idhm, df, grupos, dfs_finais,
          df_final, output_file>>

InitDe(arquivos) ==
    /\ pc = "inicio"
    /\ remoto \in arquivos
    /\ raw_file \in {SemArquivo, Arquivo(remoto)}
    /\ dtype = "int64"
    /\ dtype_idhm = "float64"
    /\ df = <<>>
    /\ grupos = <<>>
    /\ dfs_finais = <<>>
    /\ df_final = <<>>
    /\ output_file = SemArquivo

Init == InitDe(Arquivos)

InitNomes == InitDe(ArquivosNomes)

InitTexto == InitDe(ArquivosTexto)

\* line 41-49: RAW_FILE is missing and the download succeeds
Baixar ==
    /\ pc = "inicio"
    /\ ~raw_file.existe
    /\ raw_file' = Arquivo(remoto)
    /\ pc' = "carregar"
    /\ UNCHANGED <<remoto, dtype, df, grupos, dfs_finais, df_final,
                   output_file, dtype_idhm>>

\* line 50-52: RAW_FILE is missing and the download raises: the function returns
BaixarErro ==
    /\ pc = "inicio"
    /\ ~raw_file.existe
    /\ pc' = "retornou"
    /\ UNCHANGED <<remoto, raw_file, dtype, df, grupos, dfs_finais, df_final,
                   output_file, dtype_idhm>>

\* line 53-54: RAW_FILE is already there
PularDownload ==
    /\ pc = "inicio"
    /\ raw_file.existe
    /\ pc' = "carregar"
    /\ UNCHANGED <<remoto, raw_file, dtype, df, grupos, dfs_finais, df_final,
                   output_file, dtype_idhm>>

\* dtype read_csv infers for Codmun7: one missing field makes the column float
DtypeCodmun(linhas) ==
    IF \E i \in 1..Len(linhas) : linhas[i].Codmun7 = <<>>
    THEN "float64" ELSE "int64"

\* dtype read_csv infers for an indicator column: one field that is no number
\* leaves the whole column as text (object), nothing is coerced
DtypeIdhm(linhas) ==
    IF \E i \in 1..Len(linhas) : linhas[i].IDHM = Texto
    THEN "object" ELSE "float64"

ReadCsv(linhas) ==
    [i \in 1..Len(linhas) |->
        [ANO |-> linhas[i].ANO,
         Codmun7 |-> IF linhas[i].Codmun7 = <<>> THEN NaNCod
                     ELSE StrToNat(linhas[i].Codmun7),
         Municipio |-> linhas[i].Municipio,
         IDHM |-> linhas[i].IDHM]]

\* df[df['ANO'].isin(ANOS_CENSITARIOS)]
FiltraCensitarios(t) ==
    SelectSeq(t, LAMBDA r : r.ANO \in Range(ANOS_CENSITARIOS))

\* line 59-62: read_csv, then keep the censitary years
Carregar ==
    /\ pc = "carregar"
    /\ dtype' = DtypeCodmun(raw_file.linhas)
    /\ dtype_idhm' = DtypeIdhm(raw_file.linhas)
    /\ df' = FiltraCensitarios(ReadCsv(raw_file.linhas))
    /\ pc' = "renomear"
    /\ UNCHANGED <<remoto, raw_file, grupos, dfs_finais, df_final, output_file>>

\* line 65-70: select and rename the columns, then astype(str).str.zfill(7)
RenomeiaEChaveia(t, dt) ==
    [i \in 1..Len(t) |->
        [ano |-> t[i].ANO,
         codmun |-> Zfill(AsTypeStr(t[i].Codmun7, dt), LarguraCodmun),
         nome_municipio |-> t[i].Municipio,
         idhm |-> t[i].IDHM]]

Renomear ==
    /\ pc = "renomear"
    /\ df' = RenomeiaEChaveia(df, dtype)
    /\ pc' = "agrupar"
    /\ UNCHANGED <<remoto, raw_file, dtype, grupos, dfs_finais, df_final,
                   output_file, dtype_idhm>>

\* line 76-82: dfs_finais = [] and the groupby
Agrupar ==
    /\ pc = "agrupar"
    /\ dfs_finais' = <<>>
    /\ grupos' = GroupKeys(df)
    /\ pc' = "loop"
    /\ UNCHANGED <<remoto, raw_file, dtype, df, df_final, output_file,
                   dtype_idhm>>

\* line 82-99: one turn of the loop
Iterar ==
    /\ pc = "loop"
    /\ grupos # <<>>
    /\ dtype_idhm = "float64"
    /\ dfs_finais' = Append(dfs_finais, LinhaDoTempo(df, Head(grupos)))
    /\ grupos' = Tail(grupos)
    /\ UNCHANGED <<pc, remoto, raw_file, dtype, df, df_final, output_file,
                   dtype_idhm>>

\* line 82-99 with an object indicator column, on a pandas whose interpolate
\* skips object columns: one turn of the loop
IterarObjeto ==
    /\ pc = "loop"
    /\ grupos # <<>>
    /\ dtype_idhm = "object"
    /\ dfs_finais' = Append(dfs_finais, LinhaDoTempoObjeto(df, Head(grupos)))
    /\ grupos' = Tail(grupos)
    /\ UNCHANGED <<pc, remoto, raw_file, dtype, dtype_idhm, df, df_final,
                   output_file>>

\* line 95 with an object indicator column, on a pandas whose interpolate
\* refuses object columns: TypeError, the run ends
IterarErro ==
    /\ pc = "loop"
    /\ grupos # <<>>
    /\ dtype_idhm = "object"
    /\ pc' = "erro"
    /\ UNCHANGED <<remoto, raw_file, dtype, dtype_idhm, df, grupos, dfs_finais,
                   df_final, output_file>>

\* line 102: pd.concat(dfs_finais, ignore_index=True)
Concatenar ==
    /\ pc = "loop"
    /\ grupos = <<>>
    /\ dfs_finais # <<>>
    /\ df_final' = Flatten(dfs_finais)
    /\ pc' = "filtrar"
    /\ UNCHANGED <<remoto, raw_file, dtype, df, grupos, dfs_finais,
                   output_file, dtype_idhm>>

\* line 102: pd.concat of an empty list raises ValueError
ConcatenarErro ==
    /\ pc = "loop"
    /\ grupos = <<>>
    /\ dfs_finais = <<>>
    /\ pc' = "erro"
    /\ UNCHANGED <<remoto, raw_file, dtype, df, grupos, dfs_finais, df_final,
                   output_file, dtype_idhm>>

\* df_final[df_final['ano'].isin(ANOS_ALVO)]
FiltraAlvo(t) == SelectSeq(t, LAMBDA r : r.ano \in Range(ANOS_ALVO))

\* line 103
FiltrarFinal ==
    /\ pc = "filtrar"
    /\ df_final' = FiltraAlvo(df_final)
    /\ pc' = "salvar"
    /\ UNCHANGED <<remoto, raw_file, dtype, df, grupos, dfs_finais,
                   output_file, dtype_idhm>>

\* line 105-106: to_csv
Salvar ==
    /\ pc = "salvar"
    /\ output_file' = Arquivo(df_final)
    /\ pc' = "fim"
    /\ UNCHANGED <<remoto, raw_file, dtype, df, grupos, dfs_finais, df_final,
                   dtype_idhm>>

\* line 59-103 as one function of the lines of the raw file: the panel a run
\* writes when every numeric column is read as float (<<>> when no censitary
\* line is left and pd.concat raises)
Processa(linhas) ==
    LET dt == DtypeCodmun(linhas)
        d == RenomeiaEChaveia(FiltraCensitarios(ReadCsv(linhas)), dt)
        ks == GroupKeys(d)
    IN  FiltraAlvo(Flatten([i \in 1..Len(ks) |-> LinhaDoTempo(d, ks[i])]))

Next ==
    \/ Baixar
    \/ BaixarErro
    \/ PularDownload
    \/ Carregar
    \/ Renomear
    \/ Agrupar
    \/ Iterar
    \/ Concatenar
    \/ ConcatenarErro
    \/ FiltrarFinal
    \/ Salvar

Spec == Init /\ [][Next]_vars

SpecNomes == InitNomes /\ [][Next]_vars

\* the runs on files that may hold text in the indicator column: the two
\* things a pandas build does with an object column are both possible
NextTexto ==
    \/ Next
    \/ IterarObjeto
    \/ IterarErro

SpecTexto == InitTexto /\ [][NextTexto]_vars

\* ================================================================ claims
\* The input of a run is the file it read; the output panel is the file it
\* wrote.
Entrada == raw_file.linhas
Painel == output_file.linhas

\* the censitary lines of the entity whose Codmun7 field is campo
ObsDe(campo) ==
    SelectSeq(Entrada, LAMBDA l : l.Codmun7 = campo
                                  /\ l.ANO \in Range(ANOS_CENSITARIOS))

\* the entity ids of the input (a missing id is no entity)
Entidades == {Entrada[i].Codmun7 : i \in 1..Len(Entrada)} \ {<<>>}

UmaPorAno(obs) ==
    \A i, j \in 1..Len(obs) : obs[i].ANO = obs[j].ANO => i = j

\* the rows of the panel under a key
LinhasDe(chave) == SelectSeq(Painel, LAMBDA r : r.codmun = chave)

Chaves == {Painel[i].codmun : i \in 1..Len(Painel)}

\* C1: an entity with at least one censitary observation and at most one
\* observation per year has exactly one panel row for each year of ANOS_ALVO
\* and no other row, however few of the years were observed.
C1_UmaLinhaPorAnoAlvo ==
    pc = "fim" =>
        \A c \in Entidades :
            (ObsDe(c) # <<>> /\ UmaPorAno(ObsDe(c))) =>
                LET rows == LinhasDe(ChaveDe(c, dtype))
                IN  /\ Len(rows) = Len(ANOS_ALVO)
                    /\ \A k \in 1..Len(ANOS_ALVO) :
                          Cardinality({i \in 1..Len(rows) :
                                          rows[i].ano = ANOS_ALVO[k]}) = 1

\* C1 witness: a finished run where an entity observed in a single year has
\* its four rows.
C1_Witness ==
    /\ pc = "fim"
    /\ \E c \in Entidades :
          /\ Len(ObsDe(c)) = 1
          /\ Len(LinhasDe(ChaveDe(c, dtype))) = Len(ANOS_ALVO)

\* C2 (as claimed): for any input, no two rows of the panel share the same
\* (codmun, ano) pair.
C2_SemParesRepetidos ==
    pc = "fim" =>
        \A c \in Entidades :
            LET rows == LinhasDe(ChaveDe(c, dtype))
            IN  \A i, j \in 1..Len(rows) : rows[i].ano = rows[j].ano => i = j

\* the observations of an entity that carry a value of the indicator
ConhecidasDe(c) == SelectSeq(ObsDe(c), LAMBDA l : l.IDHM # NaN)

AnosConhecidos(c) == {ConhecidasDe(c)[i].ANO : i \in 1..Len(ConhecidasDe(c))}

ValoresEm(c, y) ==
    {ConhecidasDe(c)[i].IDHM :
        i \in {j \in 1..Len(ConhecidasDe(c)) : ConhecidasDe(c)[j].ANO = y}}

RatLess(a, b) == a.n * b.d < b.n * a.d

\* v0 + (v1 - v0) * (ym - y0) / (y1 - y0)
LinearEmAnos(y0, v0, y1, v1, ym) ==
    RatAdd(v0, RatScale(RatSub(v1, v0), ym - y0, y1 - y0))

\* C3 (as claimed): a grid year ym with no known value, between the nearest
\* known years y0 < ym < y1 of the entity whose known values are v0 and v1,
\* holds v0 + (v1 - v0) * (ym - y0) / (y1 - y0) in the panel.
C3_LinearEmAnos ==
    pc = "fim" =>
        \A c \in Entidades : \A k \in 1..Len(ANOS_ALVO) :
            LET ym == ANOS_ALVO[k]
                antes == {y \in AnosConhecidos(c) : y < ym}
                depois == {y \in AnosConhecidos(c) : y > ym}
            IN  (ym \notin AnosConhecidos(c) /\ antes # {} /\ depois # {}) =>
                    LET y0 == SetMax(antes)
                        y1 == SetMin(depois)
                        rows == LinhasDe(ChaveDe(c, dtype))
                    IN  (Cardinality(ValoresEm(c, y0)) = 1
                         /\ Cardinality(ValoresEm(c, y1)) = 1) =>
                            \A v0 \in ValoresEm(c, y0) : \A v1 \in ValoresEm(c, y1) :
                                \A i \in 1..Len(rows) :
                                    rows[i].ano = ym =>
                                        rows[i].idhm = LinearEmAnos(y0, v0, y1, v1, ym)

\* the value of the last listed known observation of the last known year
UltimoConhecido(c) ==
    LET y1 == SetMax(AnosConhecidos(c))
        noAno == SelectSeq(ConhecidasDe(c), LAMBDA l : l.ANO = y1)
    IN  noAno[Len(noAno)].IDHM

\* the value of the first listed known observation of a known year
PrimeiroEm(c, y) ==
    Head(SelectSeq(ConhecidasDe(c), LAMBDA l : l.ANO = y)).IDHM

UltimoEm(c, y) ==
    LET noAno == SelectSeq(ConhecidasDe(c), LAMBDA l : l.ANO = y)
    IN  noAno[Len(noAno)].IDHM

\* C4: every panel row of a year after the last known year y1 of an entity
\* holds the value known last at y1; and a row of a year with no known value
\* that lies between two known years holds a value strictly between the two
\* known values next to it when they differ (it is interpolated, not the
\* earlier value carried forward).
C4_CarryForward ==
    pc = "fim" =>
        \A c \in Entidades :
            AnosConhecidos(c) # {} =>
                LET rows == LinhasDe(ChaveDe(c, dtype))
                    yu == SetMax(AnosConhecidos(c))
                IN  \A i \in 1..Len(rows) :
                        /\ rows[i].ano > yu => rows[i].idhm = UltimoConhecido(c)
                        /\ LET ym == rows[i].ano
                               antes == {y \in AnosConhecidos(c) : y < ym}
                               depois == {y \in AnosConhecidos(c) : y > ym}
                           IN  (ym \notin AnosConhecidos(c) /\ antes # {}
                                /\ depois # {}) =>
                                   LET v0 == UltimoEm(c, SetMax(antes))
                                       v1 == PrimeiroEm(c, SetMin(depois))
                                       v == rows[i].idhm
                                   IN  /\ v # NaN
                                       /\ v0 # v1 =>
                                            \/ RatLess(v0, v) /\ RatLess(v, v1)
                                            \/ RatLess(v1, v) /\ RatLess(v, v0)

\* C4 witness: an entity known at 2000 and at 2010 with different values whose
\* 2015 row holds the 2010 value and whose 2005 row holds neither.
C4_Witness ==
    /\ pc = "fim"
    /\ \E c \in Entidades :
          /\ AnosConhecidos(c) = {2000, 2010}
          /\ UmaPorAno(ObsDe(c))
          /\ PrimeiroEm(c, 2000) # PrimeiroEm(c, 2010)
          /\ LET rows == LinhasDe(ChaveDe(c, dtype))
             IN  /\ Len(rows) = 4
                 /\ rows[4].ano = 2015 /\ rows[4].idhm = PrimeiroEm(c, 2010)
                 /\ rows[2].ano = 2005
                 /\ rows[2].idhm \notin {PrimeiroEm(c, 2000), PrimeiroEm(c, 2010)}

\* C5 (as claimed): a panel row of an entity is unset in the indicator if and
\* only if the entity has no known value at the row's year or at an earlier
\* year.
C5_UnsetSseSemConhecido ==
    pc = "fim" =>
        \A c \in Entidades :
            LET rows == LinhasDe(ChaveDe(c, dtype))
            IN  \A i \in 1..Len(rows) :
                    rows[i].idhm = NaN
                        <=> ~ \E y \in AnosConhecidos(c) : y <= rows[i].ano

\* the names the observations of an entity carry
NomesDe(c) == {ObsDe(c)[i].Municipio : i \in 1..Len(ObsDe(c))} \ {SemNome}

\* C6 (as claimed): the name is the same in all the rows of an entity that has
\* an observation, whatever names its observations carry (stated for the
\* entities observed at most once per year).
C6_NomeUnico ==
    pc = "fim" =>
        \A c \in Entidades :
            (ObsDe(c) # <<>> /\ UmaPorAno(ObsDe(c))) =>
                LET rows == LinhasDe(ChaveDe(c, dtype))
                IN  \A i, j \in 1..Len(rows) :
                        rows[i].nome_municipio = rows[j].nome_municipio

\* C6 (amended): when the observations of an entity that carry a name all
\* carry the same name, every row of the entity holds that name; when none
\* carries a name, every row is unset.
C6_NomePropagado ==
    pc = "fim" =>
        \A c \in Entidades :
            (ObsDe(c) # <<>> /\ Cardinality(NomesDe(c)) <= 1) =>
                LET rows == LinhasDe(ChaveDe(c, dtype))
                IN  /\ rows # <<>>
                    /\ \A i \in 1..Len(rows) :
                          rows[i].nome_municipio \in
                              (IF NomesDe(c) = {} THEN {SemNome} ELSE NomesDe(c))

\* C6 witness: an entity whose 2000 observation has no name and whose 2010
\* observation has one; the name reached the 2000 row and the 2015 row.
C6_Witness ==
    /\ pc = "fim"
    /\ \E c \in Entidades :
          /\ Len(ObsDe(c)) = 2
          /\ ObsDe(c)[1].ANO = 2000 /\ ObsDe(c)[1].Municipio = SemNome
          /\ ObsDe(c)[2].ANO = 2010 /\ ObsDe(c)[2].Municipio # SemNome
          /\ LET rows == LinhasDe(ChaveDe(c, dtype))
             IN  /\ Len(rows) = 4
                 /\ rows[1].nome_municipio = ObsDe(c)[2].Municipio
                 /\ rows[4].nome_municipio = ObsDe(c)[2].Municipio

\* C7 (as claimed): an entity of the input with no observation at a censitary
\* year has one panel row per year of ANOS_ALVO, all unset in the indicator,
\* and the run ends without an exception.
C7_EntidadeSemObservacao ==
    pc \in {"erro", "fim"} =>
        \A c \in Entidades :
            ObsDe(c) = <<>> =>
                /\ pc = "fim"
                /\ LET rows == LinhasDe(ChaveDe(c, dtype))
                   IN  /\ Len(rows) = Len(ANOS_ALVO)
                       /\ \A k \in 1..Len(ANOS_ALVO) :
                             /\ rows[k].ano = ANOS_ALVO[k]
                             /\ rows[k].idhm = NaN

\* C8 (as claimed): a line whose entity id is missing gives no panel row:
\* every row of the panel is under the key of an entity id of the input.
C8_SemChaveNula ==
    pc = "fim" =>
        \A i \in 1..Len(Painel) :
            \E c \in Entidades : Painel[i].codmun = ChaveDe(c, dtype)

\* C9: the rows of an observed (entity, year) are as many as its observations
\* and, in the order of the observations, each row holds the value its
\* observation carries when it carries one.
C9_ConhecidoPreservado ==
    pc = "fim" =>
        \A c \in Entidades : \A k \in 1..Len(ANOS_ALVO) :
            LET obs == SelectSeq(ObsDe(c), LAMBDA l : l.ANO = ANOS_ALVO[k])
                rows == SelectSeq(LinhasDe(ChaveDe(c, dtype)),
                                  LAMBDA r : r.ano = ANOS_ALVO[k])
            IN  obs # <<>> =>
                    /\ Len(rows) = Len(obs)
                    /\ \A j \in 1..Len(obs) :
                          obs[j].IDHM # NaN => rows[j].idhm = obs[j].IDHM

\* C9 witness: an entity known at 2000 and at 2010 with different values; its
\* 2005 row was filled and its 2000 and 2010 rows hold the observed values.
C9_Witness ==
    /\ pc = "fim"
    /\ \E c \in Entidades :
          /\ UmaPorAno(ObsDe(c))
          /\ AnosConhecidos(c) = {2000, 2010}
          /\ PrimeiroEm(c, 2000) # PrimeiroEm(c, 2010)
          /\ LET rows == LinhasDe(ChaveDe(c, dtype))
             IN  /\ Len(rows) = 4
                 /\ rows[1].idhm = PrimeiroEm(c, 2000)
                 /\ rows[2].idhm # NaN
                 /\ rows[3].idhm = PrimeiroEm(c, 2010)

PosAlvo(y) == CHOOSE k \in 1..Len(ANOS_ALVO) : ANOS_ALVO[k] = y

\* C10: the rows of one key are contiguous in the panel, the years of one key
\* follow the order of ANOS_ALVO, and the final filter on the year leaves the
\* concatenation as it is.
C10_AgrupadoEOrdenado ==
    /\ pc = "fim" =>
          /\ \A i, j, k \in 1..Len(Painel) :
                (i < j /\ j < k /\ Painel[i].codmun = Painel[k].codmun)
                    => Painel[j].codmun = Painel[i].codmun
          /\ \A i, j \in 1..Len(Painel) :
                (i < j /\ Painel[i].codmun = Painel[j].codmun)
                    => PosAlvo(Painel[i].ano) <= PosAlvo(Painel[j].ano)
    /\ pc \in {"salvar", "fim"} => df_final = Flatten(dfs_finais)

\* C10 witness: a panel with the timelines of two keys, one of them built
\* from observations listed out of year order.
C10_Witness ==
    /\ pc = "fim"
    /\ Cardinality(Chaves) >= 2
    /\ \E c \in Entidades :
          /\ Len(ObsDe(c)) = 2
          /\ ObsDe(c)[1].ANO > ObsDe(c)[2].ANO
          /\ Len(LinhasDe(ChaveDe(c, dtype))) = Len(ANOS_ALVO)

\* the same lines listed in every order
Reordenacoes(linhas) ==
    {[i \in 1..Len(linhas) |-> linhas[p[i]]] :
        p \in Permutations(1..Len(linhas))}

\* C11 (as claimed): a run on the same lines gives the same panel whatever
\* the order the lines are listed in (stated for the rows of the entities
\* with an id): the panel written equals, entity by entity, the panel of a
\* run on the file reordered.
C11_IndependeDaOrdem ==
    pc = "fim" =>
        \A outra \in Reordenacoes(Entrada) :
            \A c \in Entidades :
                LinhasDe(ChaveDe(c, dtype))
                    = SelectSeq(Processa(outra),
                                LAMBDA r : r.codmun = ChaveDe(c, dtype))

\* the lines of the input that carry the entity id campo
LinhasProprias(campo) == SelectSeq(Entrada, LAMBDA l : l.Codmun7 = campo)

\* C13 (as claimed): the panel rows of an observed entity are the rows a run
\* gives on the lines of that entity alone, whatever lines the file holds
\* for others.
C13_SoAsProprias ==
    pc = "fim" =>
        \A c \in Entidades :
            ObsDe(c) # <<>> =>
                LinhasDe(ChaveDe(c, dtype)) = Processa(LinhasProprias(c))

\* the file with every text that is no number replaced by an unset field
Coagida(linhas) ==
    [i \in 1..Len(linhas) |->
        IF linhas[i].IDHM = Texto THEN [linhas[i] EXCEPT !.IDHM = NaN]
        ELSE linhas[i]]

\* C12 (as claimed): a run on a file where a censitary line of an entity
\* holds a text that is no number in an indicator field ends without an
\* exception and writes the panel of the file with that field unset, the
\* timelines of the other entities included.
C12_TextoViraLacuna ==
    (/\ pc \in {"erro", "fim"}
     /\ \E i \in 1..Len(Entrada) :
           /\ Entrada[i].IDHM = Texto
           /\ Entrada[i].Codmun7 # <<>>
           /\ Entrada[i].ANO \in Range(ANOS_CENSITARIOS))
        => /\ pc = "fim"
           /\ Painel = Processa(Coagida(Entrada))

====
